---- MODULE Spec2Model ----
(***************************************************************************)
(* A model of the HHVM debugger helpers of nuclide (src/unnamed/part_000): *)
(* the process launcher (launchScriptForDummyConnection,                   *)
(* launchScriptToDebug) with the events of the spawned child process, and  *)
(* the pure helpers (base64, DBGP framing, URI mapping).                   *)
(*                                                                         *)
(* Representation of JavaScript strings:                                   *)
(*  - in the codec and the framer a string is the sequence of its UTF-16   *)
(*    code units (integers), so that String.length, UTF-8 and base64 are   *)
(*    computed as the runtime computes them;                               *)
(*  - in the URI mapper a string is the sequence of its characters, each a *)
(*    one-character TLA+ string;                                           *)
(*  - in the launcher a template string is the sequence of its parts       *)
(*    (literal chunks and interpolated values).                            *)
(***************************************************************************)
EXTENDS Integers, Sequences, FiniteSets, TLC

VARIABLES
  \* ---- process launcher
  mode,        \* entry point called: "none", "dummy", "debug"
  scriptPath,  \* the scriptPath argument of the launch
  sink,        \* sendToOutputWindowAndResolve: "undefined" or "callback"
  pid,         \* proc.pid
  returned,    \* what the entry point returned: "nothing", "proc", "promise"
  promise,     \* the Promise of launchScriptToDebug: "none", "pending", "fulfilled"
  outputs,     \* texts passed to sendToOutputWindow, in order
  calls,       \* order of the calls made by the callback of launchScriptToDebug
  log,         \* texts passed to logger.log, in order
  queue,       \* events the child process has emitted, not yet dispatched
  handled,     \* events whose listener has run, in order
  \* ---- pure helpers
  op,          \* helper under evaluation ("none" in the launcher)
  pc,          \* position of the evaluation
  arg,         \* its argument(s)
  ret          \* its result

lvars == <<mode, scriptPath, sink, pid, returned, promise, outputs, calls, log,
           queue, handled>>
pvars == <<op, pc, arg, ret>>
vars == <<lvars, pvars>>

\* ---------------------------------------------------------------- bounds
\* Events one child process emits in a behaviour.
MaxEvents == 3

ScriptPaths == {"/www/a.php", "b.php --flag"}
Pids == {"4711", "undefined"}
Chunks == {"hello\n"}
Errors == {"Error: spawn hhvm ENOENT"}
\* An exit code is <<n>>, or <<>> for null (the child was ended by a signal).
ExitCodes == {<<0>>, <<1>>, <<>>}

\* ------------------------------------------------------- process launcher
\* String(code) of the template literal: a number in decimal, null as "null".
CodeToString(code) == IF code = <<>> THEN "null" ELSE ToString(code[1])

SpawnLogText(p, path) ==
  <<"child_process(", p, ") spawned with xdebug enabled for: ", path>>
StdoutLogText(p, block) == <<"child_process(", p, ") stdout: ", block>>
ErrorLogText(p, err) == <<"child_process(", p, ") error: ", err>>
ExitLogText(p, code) == <<"child_process(", p, ") exit: ", CodeToString(code)>>

ErrorText(path, err) ==
  <<"The process running script: ", path, " encountered an error: ", err>>
\* A launcher that words an abnormal exit differently.
ExitTextAbnormal(path, code) ==
  IF code = <<0>>
  THEN <<"Script: ", path, " exited with code: ", CodeToString(code)>>
  ELSE <<"Script: ", path, " failed with code: ", CodeToString(code)>>
ExitText(path, code) ==
  <<"Script: ", path, " exited with code: ", CodeToString(code)>>

\* resolve() of a Promise: the first call fulfils it, a later call changes nothing.
Resolve(p) == IF p = "pending" THEN "fulfilled" ELSE p

\* A callback that resolves before it reports: text => { resolve(); sendToOutputWindow(text); }
DebugCallbackResolveFirst(text) ==
  /\ outputs' = Append(outputs, text)
  /\ calls' = calls \o <<"resolve", "sendToOutputWindow">>
  /\ promise' = Resolve(promise)

\* text => { sendToOutputWindow(text); resolve(); }
DebugCallback(text) ==
  /\ outputs' = Append(outputs, text)
  /\ calls' = calls \o <<"sendToOutputWindow", "resolve">>
  /\ promise' = Resolve(promise)

\* if (sendToOutputWindowAndResolve != null) { sendToOutputWindowAndResolve(text); }
sendToOutputWindowAndResolve(text) ==
  IF sink # "undefined"
  THEN DebugCallback(text)
  ELSE UNCHANGED <<outputs, calls, promise>>

\* spawn, the log line, and the three listeners registered on proc (OnData,
\* OnError, OnExit below). The argument list parse(scriptPath) gives spawn is
\* not part of the state: nothing after the spawn reads it.
launchPhpScriptWithXDebugEnabled(path, callback) ==
  /\ mode = "none"
  /\ scriptPath' = path
  /\ sink' = callback
  /\ \E p \in Pids :
       /\ pid' = p
       /\ log' = Append(log, SpawnLogText(p, path))
  /\ UNCHANGED <<outputs, calls, queue, handled>>

\* A dummy-connection launch that hands the primitive a callback.
launchScriptForDummyConnectionWithSink ==
  /\ \E path \in ScriptPaths : launchPhpScriptWithXDebugEnabled(path, "callback")
  /\ mode' = "dummy"
  /\ returned' = "proc"
  /\ UNCHANGED <<promise, pvars>>

launchScriptForDummyConnection ==
  /\ \E path \in ScriptPaths : launchPhpScriptWithXDebugEnabled(path, "undefined")
  /\ mode' = "dummy"
  /\ returned' = "proc"
  /\ UNCHANGED <<promise, pvars>>

launchScriptToDebug ==
  /\ \E path \in ScriptPaths : launchPhpScriptWithXDebugEnabled(path, "callback")
  /\ mode' = "debug"
  /\ promise' = "pending"
  /\ returned' = "promise"
  /\ UNCHANGED pvars

\* The child process (node's ChildProcess): it emits 'data' on stdout, 'error'
\* and 'exit' in any order; 'exit' is emitted at most once, and may or may not
\* follow an 'error'.
Emitted == handled \o queue
HasExit(s) == \E i \in 1..Len(s) : s[i].type = "exit"

EmitData ==
  /\ mode # "none"
  /\ Len(Emitted) < MaxEvents
  /\ \E c \in Chunks : queue' = Append(queue, [type |-> "data", chunk |-> c])
  /\ UNCHANGED <<mode, scriptPath, sink, pid, returned, promise, outputs, calls,
                 log, handled, pvars>>

EmitError ==
  /\ mode # "none"
  /\ Len(Emitted) < MaxEvents
  /\ \E e \in Errors : queue' = Append(queue, [type |-> "error", err |-> e])
  /\ UNCHANGED <<mode, scriptPath, sink, pid, returned, promise, outputs, calls,
                 log, handled, pvars>>

EmitExit ==
  /\ mode # "none"
  /\ Len(Emitted) < MaxEvents
  /\ ~HasExit(Emitted)
  /\ \E c \in ExitCodes : queue' = Append(queue, [type |-> "exit", code |-> c])
  /\ UNCHANGED <<mode, scriptPath, sink, pid, returned, promise, outputs, calls,
                 log, handled, pvars>>

\* The event loop runs the listener of the oldest emitted event.
Dispatch(type) ==
  /\ queue # <<>>
  /\ Head(queue).type = type
  /\ queue' = Tail(queue)
  /\ handled' = Append(handled, Head(queue))
  /\ UNCHANGED <<mode, scriptPath, sink, pid, returned, pvars>>

\* proc.stdout.on('data', chunk => ...)
OnData ==
  /\ Dispatch("data")
  /\ log' = Append(log, StdoutLogText(pid, Head(queue).chunk))
  /\ UNCHANGED <<outputs, calls, promise>>

\* proc.on('error', err => ...)
OnError ==
  /\ Dispatch("error")
  /\ log' = Append(log, ErrorLogText(pid, Head(queue).err))
  /\ sendToOutputWindowAndResolve(ErrorText(scriptPath, Head(queue).err))

\* An exit listener that only logs.
OnExitLogOnly ==
  /\ Dispatch("exit")
  /\ log' = Append(log, ExitLogText(pid, Head(queue).code))
  /\ UNCHANGED <<outputs, calls, promise>>

\* proc.on('exit', code => ...)
OnExit ==
  /\ Dispatch("exit")
  /\ log' = Append(log, ExitLogText(pid, Head(queue).code))
  /\ sendToOutputWindowAndResolve(ExitText(scriptPath, Head(queue).code))

LauncherIdle ==
  /\ mode = "none"
  /\ scriptPath = ""
  /\ sink = "undefined"
  /\ pid = "undefined"
  /\ returned = "nothing"
  /\ promise = "none"
  /\ outputs = <<>>
  /\ calls = <<>>
  /\ log = <<>>
  /\ queue = <<>>
  /\ handled = <<>>

PureIdle ==
  /\ op = "none"
  /\ pc = "none"
  /\ arg = <<>>
  /\ ret = <<>>

Init == LauncherIdle /\ PureIdle

Next ==
  \/ launchScriptForDummyConnection
  \/ launchScriptToDebug
  \/ EmitData
  \/ EmitError
  \/ EmitExit
  \/ OnData
  \/ OnError
  \/ OnExit

Spec == Init /\ [][Next]_vars

\* The event loop keeps dispatching emitted events; the child process is under
\* no obligation to emit any.
SpecLive == Spec /\ WF_vars(OnData) /\ WF_vars(OnError) /\ WF_vars(OnExit)

\* ------------------------------------------------------------ strings
\* All strings over the code units (or characters) of S, of length 0..n.
Strings(S, n) == UNION {[1..k -> S] : k \in 0..n}

\* String(n) of a non-negative integer: its decimal digits as code units.
RECURSIVE DecimalString(_)
DecimalString(n) ==
  IF n < 10 THEN <<48 + n>> ELSE DecimalString(n \div 10) \o <<48 + (n % 10)>>

\* ---------------------------------------------------------------- codec
IsHighSurrogate(u) == u >= 55296 /\ u <= 56319
IsLowSurrogate(u) == u >= 56320 /\ u <= 57343
IsContinuation(b) == b >= 128 /\ b <= 191

Utf8OfCodePoint(cp) ==
  IF cp < 128 THEN <<cp>>
  ELSE IF cp < 2048 THEN <<192 + (cp \div 64), 128 + (cp % 64)>>
  ELSE IF cp < 65536
    THEN <<224 + (cp \div 4096), 128 + ((cp \div 64) % 64), 128 + (cp % 64)>>
  ELSE <<240 + (cp \div 262144), 128 + ((cp \div 4096) % 64),
         128 + ((cp \div 64) % 64), 128 + (cp % 64)>>

\* new Buffer(value): the UTF-8 bytes of a string. A surrogate pair is one code
\* point of four bytes; an unpaired surrogate is written as U+FFFD (EF BF BD).
RECURSIVE Utf8Write(_)
Utf8Write(s) ==
  IF s = <<>> THEN <<>>
  ELSE IF IsHighSurrogate(s[1]) /\ Len(s) >= 2 /\ IsLowSurrogate(s[2])
    THEN Utf8OfCodePoint(65536 + (s[1] - 55296) * 1024 + (s[2] - 56320))
           \o Utf8Write(SubSeq(s, 3, Len(s)))
  ELSE IF IsHighSurrogate(s[1]) \/ IsLowSurrogate(s[1])
    THEN <<239, 191, 189>> \o Utf8Write(Tail(s))
  ELSE Utf8OfCodePoint(s[1]) \o Utf8Write(Tail(s))

\* buffer.toString(): the string of UTF-8 bytes; a byte that starts no
\* well-formed sequence is read as U+FFFD.
RECURSIVE Utf8Slice(_)
Utf8Slice(b) ==
  IF b = <<>> THEN <<>>
  ELSE IF b[1] < 128 THEN <<b[1]>> \o Utf8Slice(Tail(b))
  ELSE IF /\ b[1] >= 194 /\ b[1] <= 223
          /\ Len(b) >= 2 /\ IsContinuation(b[2])
    THEN <<(b[1] - 192) * 64 + (b[2] - 128)>> \o Utf8Slice(SubSeq(b, 3, Len(b)))
  ELSE IF /\ b[1] >= 224 /\ b[1] <= 239
          /\ Len(b) >= 3 /\ IsContinuation(b[2]) /\ IsContinuation(b[3])
          /\ LET cp == (b[1] - 224) * 4096 + (b[2] - 128) * 64 + (b[3] - 128)
             IN cp >= 2048 /\ ~IsHighSurrogate(cp) /\ ~IsLowSurrogate(cp)
    THEN <<(b[1] - 224) * 4096 + (b[2] - 128) * 64 + (b[3] - 128)>>
           \o Utf8Slice(SubSeq(b, 4, Len(b)))
  ELSE IF /\ b[1] >= 240 /\ b[1] <= 244
          /\ Len(b) >= 4
          /\ IsContinuation(b[2]) /\ IsContinuation(b[3]) /\ IsContinuation(b[4])
          /\ LET cp == (b[1] - 240) * 262144 + (b[2] - 128) * 4096
                         + (b[3] - 128) * 64 + (b[4] - 128)
             IN cp >= 65536 /\ cp <= 1114111
    THEN LET cp == (b[1] - 240) * 262144 + (b[2] - 128) * 4096
                     + (b[3] - 128) * 64 + (b[4] - 128)
         IN <<55296 + ((cp - 65536) \div 1024), 56320 + ((cp - 65536) % 1024)>>
              \o Utf8Slice(SubSeq(b, 5, Len(b)))
  ELSE <<65533>> \o Utf8Slice(Tail(b))

\* The base64 alphabet: A-Z, a-z, 0-9, '+', '/'.
Base64Char(i) ==
  IF i < 26 THEN 65 + i
  ELSE IF i < 52 THEN 97 + (i - 26)
  ELSE IF i < 62 THEN 48 + (i - 52)
  ELSE IF i = 62 THEN 43 ELSE 47

\* The value of a base64 character ('-' and '_' are read as '+' and '/'), or -1.
Base64Value(c) ==
  IF c >= 65 /\ c <= 90 THEN c - 65
  ELSE IF c >= 97 /\ c <= 122 THEN c - 97 + 26
  ELSE IF c >= 48 /\ c <= 57 THEN c - 48 + 52
  ELSE IF c \in {43, 45} THEN 62
  ELSE IF c \in {47, 95} THEN 63
  ELSE 0 - 1

\* buffer.toString('base64'): three bytes to four characters, '=' padding.
RECURSIVE Base64OfBytes(_)
Base64OfBytes(b) ==
  IF b = <<>> THEN <<>>
  ELSE IF Len(b) = 1
    THEN <<Base64Char(b[1] \div 4), Base64Char((b[1] % 4) * 16), 61, 61>>
  ELSE IF Len(b) = 2
    THEN <<Base64Char(b[1] \div 4), Base64Char((b[1] % 4) * 16 + (b[2] \div 16)),
           Base64Char((b[2] % 16) * 4), 61>>
  ELSE <<Base64Char(b[1] \div 4), Base64Char((b[1] % 4) * 16 + (b[2] \div 16)),
         Base64Char((b[2] % 16) * 4 + (b[3] \div 64)), Base64Char(b[3] % 64)>>
         \o Base64OfBytes(SubSeq(b, 4, Len(b)))

\* new Buffer(value, 'base64'), first half: the 6-bit values of the characters
\* up to the first '='; a character outside the alphabet is skipped.
RECURSIVE Base64Sextets(_)
Base64Sextets(s) ==
  IF s = <<>> \/ s[1] = 61 THEN <<>>
  ELSE IF Base64Value(s[1]) < 0 THEN Base64Sextets(Tail(s))
  ELSE <<Base64Value(s[1])>> \o Base64Sextets(Tail(s))

\* second half: four 6-bit values to three bytes; a trailing group of two or
\* three values gives one or two bytes.
RECURSIVE BytesOfSextets(_)
BytesOfSextets(v) ==
  IF Len(v) < 2 THEN <<>>
  ELSE IF Len(v) = 2 THEN <<v[1] * 4 + (v[2] \div 16)>>
  ELSE IF Len(v) = 3
    THEN <<v[1] * 4 + (v[2] \div 16), (v[2] % 16) * 16 + (v[3] \div 4)>>
  ELSE <<v[1] * 4 + (v[2] \div 16), (v[2] % 16) * 16 + (v[3] \div 4),
         (v[3] % 4) * 64 + v[4]>> \o BytesOfSextets(SubSeq(v, 5, Len(v)))

base64Decode(value) == Utf8Slice(BytesOfSextets(Base64Sextets(value)))

\* An encoder that takes each code unit for one byte: new Buffer(value, 'binary').
base64EncodeBinary(value) ==
  Base64OfBytes([i \in 1..Len(value) |-> value[i] % 256])

base64Encode(value) == Base64OfBytes(Utf8Write(value))

\* ---- the codec as a state machine: encode a text, then decode the result
\* Code units of the texts: 'A', e-acute, the euro sign, and the two halves of
\* the surrogate pair of U+1F600.
TextUnits == {65, 233, 8364, 55357, 56832}
MaxTextLen == 3

CodecInit ==
  /\ LauncherIdle
  /\ op = "base64"
  /\ pc = "start"
  /\ arg \in Strings(TextUnits, MaxTextLen)
  /\ ret = <<>>

CallBase64Encode ==
  /\ op = "base64"
  /\ pc = "start"
  /\ ret' = base64Encode(arg)
  /\ pc' = "encoded"
  /\ UNCHANGED <<op, arg, lvars>>

CallBase64Decode ==
  /\ op = "base64"
  /\ pc = "encoded"
  /\ ret' = base64Decode(ret)
  /\ pc' = "decoded"
  /\ UNCHANGED <<op, arg, lvars>>

CodecNext == CallBase64Encode \/ CallBase64Decode

SpecCodec == CodecInit /\ [][CodecNext]_vars

\* ------------------------------------------------------- message framer
XmlDeclaration ==
  <<60, 63, 120, 109, 108, 32, 118, 101, 114, 115, 105, 111, 110, 61, 34,
    49, 46, 48, 34, 32, 101, 110, 99, 111, 100, 105, 110, 103, 61, 34, 105,
    115, 111, 45, 56, 56, 53, 57, 45, 49, 34, 63, 62>>
ResponseOpenTag ==
  <<60, 114, 101, 115, 112, 111, 110, 115, 101, 32, 120, 109, 108, 110, 115,
    61, 34, 117, 114, 110, 58, 100, 101, 98, 117, 103, 103, 101, 114, 95,
    112, 114, 111, 116, 111, 99, 111, 108, 95, 118, 49, 34, 32, 120, 109,
    108, 110, 115, 58, 120, 100, 101, 98, 117, 103, 61, 34, 104, 116, 116,
    112, 58, 47, 47, 120, 100, 101, 98, 117, 103, 46, 111, 114, 103, 47,
    100, 98, 103, 112, 47, 120, 100, 101, 98, 117, 103, 34>>
ResponseCloseTag ==
  <<60, 47, 114, 101, 115, 112, 111, 110, 115, 101, 62>>

\* String(message.length) + '\x00' + message + '\x00'; length is the number of
\* UTF-16 code units of the string.
makeDbgpMessage(message) ==
  DecimalString(Len(message)) \o <<0>> \o message \o <<0>>

\* An object is the sequence of its own properties [key, value] in the order
\* they were created; keys are distinct.
IsDigits(k) == \A i \in 1..Len(k) : k[i] >= 48 /\ k[i] <= 57
RECURSIVE NumericValue(_)
NumericValue(k) ==
  IF k = <<>> THEN 0 ELSE 10 * NumericValue(SubSeq(k, 1, Len(k) - 1)) + (k[Len(k)] - 48)
\* A key that is the canonical decimal form of an integer index. (The indices
\* of ten digits, up to 2^32 - 2, are beyond the integers TLC computes with; the
\* keys of the model have at most two digits.)
IsArrayIndex(k) ==
  /\ k # <<>>
  /\ Len(k) <= 9
  /\ IsDigits(k)
  /\ (Len(k) = 1 \/ k[1] # 48)

IsIndexEntry(e) == IsArrayIndex(e.key)
IsNamedEntry(e) == ~IsArrayIndex(e.key)

RECURSIVE AscendingIndexEntries(_)
AscendingIndexEntries(es) ==
  IF es = <<>> THEN <<>>
  ELSE LET m == CHOOSE i \in 1..Len(es) :
                  \A j \in 1..Len(es) : NumericValue(es[i].key) <= NumericValue(es[j].key)
       IN <<es[m]>> \o AscendingIndexEntries(SubSeq(es, 1, m - 1) \o SubSeq(es, m + 1, Len(es)))

\* for (const key in obj): integer-index keys in ascending numeric order, then
\* the other string keys in the order they were created.
ForIn(obj) ==
  AscendingIndexEntries(SelectSeq(obj, IsIndexEntry)) \o SelectSeq(obj, IsNamedEntry)

\* result += ' ' + key + '="' + obj[key] + '"', for each enumerated property
RECURSIVE AppendAttributes(_, _)
AppendAttributes(result, entries) ==
  IF entries = <<>> THEN result
  ELSE AppendAttributes(
         result \o <<32>> \o entries[1].key \o <<61, 34>> \o entries[1].value \o <<34>>,
         Tail(entries))

\* body || '': body is <<>> when null or undefined, <<text>> otherwise
BodyOrEmpty(body) == IF body = <<>> \/ body[1] = <<>> THEN <<>> ELSE body[1]

\* A builder that escapes the quote of an attribute value as &quot;.
RECURSIVE EscapeQuotes(_)
EscapeQuotes(v) ==
  IF v = <<>> THEN <<>>
  ELSE (IF v[1] = 34 THEN <<38, 113, 117, 111, 116, 59>> ELSE <<v[1]>>)
         \o EscapeQuotes(Tail(v))
makeMessageEscaped(obj, body) ==
  makeDbgpMessage(
    AppendAttributes(XmlDeclaration \o ResponseOpenTag,
                     [i \in 1..Len(obj) |->
                        [key |-> ForIn(obj)[i].key,
                         value |-> EscapeQuotes(ForIn(obj)[i].value)]])
      \o <<62>> \o BodyOrEmpty(body) \o ResponseCloseTag)

makeMessage(obj, body) ==
  makeDbgpMessage(
    AppendAttributes(XmlDeclaration \o ResponseOpenTag, ForIn(obj))
      \o <<62>> \o BodyOrEmpty(body) \o ResponseCloseTag)

\* ---- the framer as a state machine: one call of either function
\* Code units of the messages: 'h', e-acute, the euro sign.
MessageUnits == {104, 233, 8364}
MaxMessageLen == 3
\* A message long enough for a length of two digits.
LongMessage == [i \in 1..12 |-> 104]
Messages == Strings(MessageUnits, MaxMessageLen) \cup {LongMessage}

\* Attribute names "id", "10", "9"; values '1', '"&', e-acute.
AttrKeys == {<<105, 100>>, <<49, 48>>, <<57>>}
AttrValues == {<<49>>, <<34, 38>>, <<233>>}
MaxAttrs == 2
Objects ==
  UNION {{o \in [1..k -> [key : AttrKeys, value : AttrValues]] :
            \A i, j \in 1..k : i # j => o[i].key # o[j].key} : k \in 0..MaxAttrs}
\* body absent, the empty string, 'b' e-acute
Bodies == {<<>>, << <<>> >>, << <<98, 233>> >>}

FramerInit ==
  /\ LauncherIdle
  /\ pc = "call"
  /\ ret = <<>>
  /\ \/ op = "makeDbgpMessage" /\ arg \in Messages
     \/ op = "makeMessage" /\ arg \in [obj : Objects, body : Bodies]

CallMakeDbgpMessage ==
  /\ op = "makeDbgpMessage"
  /\ pc = "call"
  /\ ret' = makeDbgpMessage(arg)
  /\ pc' = "return"
  /\ UNCHANGED <<op, arg, lvars>>

CallMakeMessage ==
  /\ op = "makeMessage"
  /\ pc = "call"
  /\ ret' = makeMessage(arg.obj, arg.body)
  /\ pc' = "return"
  /\ UNCHANGED <<op, arg, lvars>>

FramerNext == CallMakeDbgpMessage \/ CallMakeMessage

SpecFramer == FramerInit /\ [][FramerNext]_vars

\* ------------------------------------------------------------ URI mapper
\* 'file://' + path
FilePrefix == <<"f", "i", "l", "e", ":", "/", "/">>

\* A mapper that leaves out the two slashes: 'file:' + path.
pathToUriOmitsSlashes(path) == <<"f", "i", "l", "e", ":">> \o path

pathToUri(path) == FilePrefix \o path

\* ---- url.parse(uri) of node's url module, for strings without '@' and
\* without a port; protocol and pathname are <<>> for null and <<text>> otherwise.
IndexOf(s, c) ==
  IF \E i \in 1..Len(s) : s[i] = c
  THEN CHOOSE i \in 1..Len(s) : s[i] = c /\ \A j \in 1..(i - 1) : s[j] # c
  ELSE 0
FirstOf(s, C) ==
  IF \E i \in 1..Len(s) : s[i] \in C
  THEN CHOOSE i \in 1..Len(s) : s[i] \in C /\ \A j \in 1..(i - 1) : s[j] \notin C
  ELSE 0
StartsWith(s, p) == Len(s) >= Len(p) /\ SubSeq(s, 1, Len(p)) = p
Drop(s, n) == SubSeq(s, n + 1, Len(s))

\* Characters of the model: lower-case letters, the capitals H T P, and marks.
LowerOf(c) ==
  IF c = "H" THEN "h" ELSE IF c = "T" THEN "t" ELSE IF c = "P" THEN "p" ELSE c
ToLowerCase(s) == [i \in 1..Len(s) |-> LowerOf(s[i])]
Whitespace == {" "}
\* [a-z0-9.+-], case-insensitive
ProtocolChars ==
  {"a", "b", "e", "f", "h", "i", "l", "p", "t", "H", "T", "P", ".", "+", "-"}
\* characters that end a host: '/', '?', '#', ';', '%' and the escaped ones
NonHostChars == {"/", "?", "#", ";", "%", " ", "\\"}
SlashedProtocols ==
  {<<"h", "t", "t", "p", ":">>, <<"h", "t", "t", "p", "s", ":">>,
   <<"f", "t", "p", ":">>, <<"g", "o", "p", "h", "e", "r", ":">>,
   <<"f", "i", "l", "e", ":">>}
HostlessProtocols ==
  {<<"j", "a", "v", "a", "s", "c", "r", "i", "p", "t", ":">>}

\* Backslashes before the query string or the fragment become slashes.
ReplaceBackslashes(url) ==
  LET queryIndex == IndexOf(url, "?")
      hashIndex == IndexOf(url, "#")
      splitter == IF queryIndex # 0 /\ queryIndex < hashIndex THEN "?" ELSE "#"
      cut == IndexOf(url, splitter)
      n == IF cut = 0 THEN Len(url) ELSE cut - 1
  IN [i \in 1..Len(url) |-> IF i <= n /\ url[i] = "\\" THEN "/" ELSE url[i]]

RECURSIVE Trim(_)
Trim(s) ==
  IF s = <<>> THEN s
  ELSE IF s[1] \in Whitespace THEN Trim(Tail(s))
  ELSE IF s[Len(s)] \in Whitespace THEN Trim(SubSeq(s, 1, Len(s) - 1))
  ELSE s

\* The length of the match of /^([a-z0-9.+-]+:)/i, or 0.
ProtocolLength(rest) ==
  LET stop == IF \E i \in 1..Len(rest) : rest[i] \notin ProtocolChars
              THEN CHOOSE i \in 1..Len(rest) :
                     rest[i] \notin ProtocolChars
                     /\ \A j \in 1..(i - 1) : rest[j] \in ProtocolChars
              ELSE 0
  IN IF stop > 1 /\ rest[stop] = ":" THEN stop ELSE 0

\* ' ' becomes %20 and '\' becomes %5C.
RECURSIVE AutoEscape(_)
AutoEscape(s) ==
  IF s = <<>> THEN <<>>
  ELSE (IF s[1] = " " THEN <<"%", "2", "0">>
        ELSE IF s[1] = "\\" THEN <<"%", "5", "C">>
        ELSE <<s[1]>>) \o AutoEscape(Tail(s))

Before(s, c) == IF IndexOf(s, c) = 0 THEN s ELSE SubSeq(s, 1, IndexOf(s, c) - 1)

\* The last step: the escapes, the fragment and the query are cut off; what is
\* left is the pathname; a slashed protocol with a host and no path has '/'.
ParsePathname(rest, lowerProto, hostname) ==
  LET escaped == IF lowerProto \in HostlessProtocols THEN rest ELSE AutoEscape(rest)
      path == Before(Before(escaped, "#"), "?")
  IN [protocol |-> IF lowerProto # <<>> THEN <<lowerProto>> ELSE <<>>,
      hostname |-> hostname,
      pathname |-> IF path # <<>> THEN <<path>>
                   ELSE IF lowerProto \in SlashedProtocols /\ hostname # <<>>
                     THEN << <<"/">> >>
                   ELSE <<>>]

\* The host is what precedes the first character that cannot be in a host.
ParseHost(rest, proto, hasHost) ==
  LET hostEnd == FirstOf(rest, NonHostChars)
      host == IF ~hasHost THEN <<>>
              ELSE IF hostEnd = 0 THEN rest ELSE SubSeq(rest, 1, hostEnd - 1)
  IN ParsePathname(Drop(rest, Len(host)), ToLowerCase(proto), ToLowerCase(host))

\* '//' after a protocol announces a host; so does a protocol that is not one
\* of the slashed protocols (the protocol is looked up as written).
ParseSlashes(rest, proto) ==
  LET slashes == proto # <<>> /\ StartsWith(rest, <<"/", "/">>)
  IN ParseHost(IF slashes /\ proto \notin HostlessProtocols THEN Drop(rest, 2) ELSE rest,
               proto,
               /\ proto \notin HostlessProtocols
               /\ (slashes \/ (proto # <<>> /\ proto \notin SlashedProtocols)))

ParseTrimmed(trimmed) ==
  ParseSlashes(Drop(trimmed, ProtocolLength(trimmed)),
               SubSeq(trimmed, 1, ProtocolLength(trimmed)))

urlParse(url) == ParseTrimmed(Trim(ReplaceBackslashes(url)))

\* logger.logErrorAndThrow(text): logs the text and throws an error with it.
logErrorAndThrow(text) == [threw |-> TRUE, error |-> text, value |-> <<>>]

\* A mapper that does not look at the protocol.
uriToPathAnyProtocol(uri) ==
  LET components == urlParse(uri)
  IN [threw |-> FALSE, error |-> <<>>,
      value |-> <<IF components.pathname = <<>> THEN <<>> ELSE components.pathname[1]>>]

\* The result is [threw, error, value]: value is <<path>> when a path is
\* returned and <<>> when the call threw.
uriToPath(uri) ==
  LET components == urlParse(uri)
  IN IF /\ components.protocol # << <<"f", "i", "l", "e", ":">> >>
        /\ components.protocol # <<>>
     THEN logErrorAndThrow(<<"unexpected file protocol. Got: ">> \o components.protocol[1])
     ELSE [threw |-> FALSE, error |-> <<>>,
           value |-> <<IF components.pathname = <<>> THEN <<>>
                       ELSE components.pathname[1]>>]

\* ---- the mapper as a state machine: a path is mapped to a URI and back, or
\* a URI put together from its components is mapped to a path
PathChars == {"/", "a", ".", " ", "#", "\\"}
MaxPathLen == 3

UriSchemes == {<<>>, <<"f", "i", "l", "e", ":">>, <<"h", "t", "t", "p", ":">>,
               <<"H", "T", "T", "P", ":">>}
\* no authority, '//' with an empty host, '//a'
UriAuthorities == {<<>>, << <<>> >>, << <<"a">> >>}
MaxUriPathLen == 3
UriPaths == Strings({"/", "a"}, MaxUriPathLen)
UriSuffixes == {<<>>, <<"?", "a">>, <<"#", "a">>}

\* scheme [ '//' host ] path [ '?' query | '#' fragment ]: after an authority
\* the path is empty or begins with '/'; a string without a scheme is a bare
\* path; after a scheme without authority the path does not begin with '//'.
UriParts ==
  {u \in [scheme : UriSchemes, authority : UriAuthorities, path : UriPaths,
          suffix : UriSuffixes] :
     /\ (u.authority # <<>>) => (u.scheme # <<>> /\ (u.path = <<>> \/ u.path[1] = "/"))
     /\ (u.scheme # <<>> /\ u.authority = <<>>) => ~StartsWith(u.path, <<"/", "/">>)}
UriOf(u) ==
  u.scheme \o (IF u.authority = <<>> THEN <<>> ELSE <<"/", "/">> \o u.authority[1])
    \o u.path \o u.suffix

UriInit ==
  /\ LauncherIdle
  /\ pc = "call"
  /\ ret = <<>>
  /\ \/ op = "roundTrip" /\ arg \in Strings(PathChars, MaxPathLen)
     \/ op = "uriToPath" /\ arg \in UriParts

CallPathToUri ==
  /\ op = "roundTrip"
  /\ pc = "call"
  /\ ret' = pathToUri(arg)
  /\ pc' = "uri"
  /\ UNCHANGED <<op, arg, lvars>>

CallUriToPathOfUri ==
  /\ op = "roundTrip"
  /\ pc = "uri"
  /\ ret' = uriToPath(ret)
  /\ pc' = "path"
  /\ UNCHANGED <<op, arg, lvars>>

CallUriToPath ==
  /\ op = "uriToPath"
  /\ pc = "call"
  /\ ret' = uriToPath(UriOf(arg))
  /\ pc' = "return"
  /\ UNCHANGED <<op, arg, lvars>>

UriNext == CallPathToUri \/ CallUriToPathOfUri \/ CallUriToPath

SpecUri == UriInit /\ [][UriNext]_vars

\* ------------------------------------------------------- launcher claims
IsTerminal(e) == e.type \in {"error", "exit"}
Terminal(s) == SelectSeq(s, IsTerminal)
HasTerminal(s) == \E i \in 1..Len(s) : IsTerminal(s[i])

\* C1: for a launch with a completion sink, over every sequence of error and
\* exit events the sink is invoked at most once.
C1_SinkInvokedAtMostOnce == mode = "debug" => Len(outputs) <= 1

\* Every resolve() in the order of calls comes after a sendToOutputWindow(text).
ResolveFollowsOutput ==
  \A i \in 1..Len(calls) :
    calls[i] = "resolve" => \E j \in 1..(i - 1) : calls[j] = "sendToOutputWindow"
FirstSummary ==
  LET e == Terminal(handled)[1]
  IN IF e.type = "error"
     THEN <<"The process running script: ", scriptPath, " encountered an error: ", e.err>>
     ELSE <<"Script: ", scriptPath, " exited with code: ", CodeToString(e.code)>>
C2_StateInv ==
  mode = "debug" =>
    /\ promise \in {"pending", "fulfilled"}
    /\ ResolveFollowsOutput
    /\ promise = "fulfilled" <=> Terminal(handled) # <<>>
    /\ promise = "fulfilled" => outputs # <<>> /\ outputs[1] = FirstSummary
\* C2: the completion signal of launchScriptToDebug is never resolved before
\* sendToOutputWindow was called with the summary text; it is resolved from the
\* first error or exit event on, and once resolved it stays resolved.
C2_ResolvedAfterOutputAndStable ==
  /\ []C2_StateInv
  /\ [][promise = "fulfilled" => promise' = "fulfilled"]_vars
C2_Witness ==
  /\ mode = "debug"
  /\ promise = "fulfilled"
  /\ Len(Terminal(handled)) >= 2
  /\ handled[1].type = "data"

\* C3: when the child process emits an error or an exit event the completion
\* signal is eventually resolved and the sink has received a message (an error
\* arrives as a message); while it has emitted neither, the signal is unresolved.
C3_LaunchAndWaitLiveness ==
  /\ (mode = "debug" /\ HasTerminal(queue)) ~> (promise = "fulfilled" /\ outputs # <<>>)
  /\ [](mode = "debug" /\ ~HasTerminal(Emitted) => promise = "pending" /\ outputs = <<>>)
  /\ [](mode = "debug" /\ HasTerminal(handled) /\ Terminal(handled)[1].type = "error"
          => outputs # <<>> /\ outputs[1][4] = Terminal(handled)[1].err)
C3_Witness ==
  /\ mode = "debug"
  /\ promise = "fulfilled"
  /\ Len(handled) = 2
  /\ handled[1].type = "data"
  /\ handled[2].type = "error"
  /\ Len(outputs) = 1

\* C4: every message delivered to the sink embeds the script path: for an exit
\* with code N it is 'Script: <scriptPath> exited with code: N', the same shape
\* for N = 0 and N # 0; for an error it holds the script path and the error detail.
C4_MessageEmbedsScriptPath ==
  mode = "debug" =>
    LET t == Terminal(handled)
    IN \A i \in 1..Len(outputs) :
         /\ i <= Len(t)
         /\ Len(outputs[i]) = 4
         /\ outputs[i][2] = scriptPath
         /\ t[i].type = "exit" /\ t[i].code # <<>> =>
              outputs[i] = <<"Script: ", scriptPath, " exited with code: ",
                             ToString(t[i].code[1])>>
         /\ t[i].type = "error" => outputs[i][4] = t[i].err
C4_Witness ==
  /\ mode = "debug"
  /\ scriptPath = "b.php --flag"
  /\ \E i \in 1..Len(outputs) :
       outputs[i] = <<"Script: ", "b.php --flag", " exited with code: ", "1">>

\* Before a launch no event exists; after a dummy launch the handle has been
\* returned, there is no sink, and every event has only added a log line.
C5_StateInv ==
  /\ mode = "none" => handled = <<>> /\ queue = <<>>
  /\ mode = "dummy" =>
       /\ returned = "proc"
       /\ sink = "undefined"
       /\ outputs = <<>>
       /\ calls = <<>>
       /\ promise = "none"
       /\ Len(log) = 1 + Len(handled)
C5_DataStep ==
  (queue # <<>> /\ Head(queue).type = "data" /\ handled' # handled)
    => UNCHANGED <<outputs, calls, promise>>
\* C5: launchScriptForDummyConnection returns the process handle before any
\* event is handled and installs no sink: its stdout, error and exit events only
\* log. In both entry points a stdout data event neither invokes the sink nor
\* resolves the completion signal.
C5_DummyLaunchHasNoSink == []C5_StateInv /\ [][C5_DataStep]_vars
C5_Witness ==
  /\ mode = "dummy"
  /\ returned = "proc"
  /\ Len(handled) = 3
  /\ HasExit(handled)
  /\ \E i \in 1..3 : handled[i].type = "error"
  /\ \E i \in 1..3 : handled[i].type = "data"
  /\ outputs = <<>>

\* ---------------------------------------------------------- codec claims
\* A text is well-formed UTF-16 when every surrogate is half of a pair.
RECURSIVE WellFormed(_)
WellFormed(s) ==
  IF s = <<>> THEN TRUE
  ELSE IF IsHighSurrogate(s[1])
    THEN Len(s) >= 2 /\ IsLowSurrogate(s[2]) /\ WellFormed(SubSeq(s, 3, Len(s)))
  ELSE ~IsLowSurrogate(s[1]) /\ WellFormed(Tail(s))

\* C10 as stated: for every text x, base64Decode(base64Encode(x)) = x.
C10_RoundTripEveryText == (op = "base64" /\ pc = "decoded") => ret = arg

\* C10, amended: for every text x without an unpaired surrogate code unit,
\* base64Decode(base64Encode(x)) = x.
C10_RoundTripWellFormed ==
  (op = "base64" /\ pc = "decoded" /\ WellFormed(arg)) => ret = arg
C10_Witness ==
  /\ op = "base64"
  /\ pc = "decoded"
  /\ arg = <<8364, 55357, 56832>>
  /\ ret = arg

\* --------------------------------------------------------- framer claims
\* Reading a frame back: the digits before the first NUL, and what lies between
\* that NUL and the last code unit.
FirstNul(r) == CHOOSE i \in 1..Len(r) : r[i] = 0 /\ \A j \in 1..(i - 1) : r[j] # 0
FramePrefix(r) == SubSeq(r, 1, FirstNul(r) - 1)
FramePayload(r) == SubSeq(r, FirstNul(r) + 1, Len(r) - 1)
RECURSIVE DigitsValue(_)
DigitsValue(d) ==
  IF d = <<>> THEN 0 ELSE 10 * DigitsValue(SubSeq(d, 1, Len(d) - 1)) + (d[Len(d)] - 48)
\* r is: n in decimal without leading zeros, NUL, payload, NUL
IsFrameOf(r, payload, n) ==
  /\ \E i \in 1..Len(r) : r[i] = 0
  /\ r[Len(r)] = 0
  /\ FirstNul(r) < Len(r)
  /\ FramePrefix(r) # <<>>
  /\ \A i \in 1..Len(FramePrefix(r)) : FramePrefix(r)[i] \in 48..57
  /\ (Len(FramePrefix(r)) = 1 \/ FramePrefix(r)[1] # 48)
  /\ DigitsValue(FramePrefix(r)) = n
  /\ FramePayload(r) = payload

\* C6: makeDbgpMessage returns the byte length of the body in decimal without
\* leading zeros, NUL, the body unchanged, NUL; the length is the byte length
\* also for a body with characters of more than one byte.
C6_FrameHasByteLength ==
  (op = "makeDbgpMessage" /\ pc = "return") => IsFrameOf(ret, arg, Len(Utf8Write(arg)))

\* The text makeMessage is to frame, for the attributes in the given order.
RECURSIVE AttributesText(_)
AttributesText(entries) ==
  IF entries = <<>> THEN <<>>
  ELSE <<32>> \o entries[1].key \o <<61, 34>> \o entries[1].value \o <<34>>
         \o AttributesText(Tail(entries))
ResponseText(entries, body) ==
  XmlDeclaration \o ResponseOpenTag \o AttributesText(entries) \o <<62>>
    \o (IF body = <<>> THEN <<>> ELSE body[1]) \o ResponseCloseTag

\* The order in which an object's properties are enumerated: o rearranged so
\* that integer-index names come first, by ascending value, and the other names
\* follow in the order of their creation.
Position(o, key) == CHOOSE i \in 1..Len(o) : o[i].key = key
EnumerationOrder(o) ==
  CHOOSE s \in [1..Len(o) -> {o[i] : i \in 1..Len(o)}] :
    /\ \A i \in 1..Len(o) : \E j \in 1..Len(o) : s[j] = o[i]
    /\ \A i, j \in 1..Len(o) :
         i < j =>
           \/ IsArrayIndex(s[i].key) /\ ~IsArrayIndex(s[j].key)
           \/ /\ IsArrayIndex(s[i].key) /\ IsArrayIndex(s[j].key)
              /\ DigitsValue(s[i].key) < DigitsValue(s[j].key)
           \/ /\ ~IsArrayIndex(s[i].key) /\ ~IsArrayIndex(s[j].key)
              /\ Position(o, s[i].key) < Position(o, s[j].key)

FileScheme == <<"f", "i", "l", "e", ":">>
HttpScheme == <<"h", "t", "t", "p", ":">>
IsHttp(scheme) == scheme \in {HttpScheme, <<"H", "T", "T", "P", ":">>}
ThrowsUnexpectedProtocol(r, scheme) ==
  /\ r.threw
  /\ r.value = <<>>
  /\ r.error = <<"unexpected file protocol. Got: ">> \o scheme

\* C7 as stated: uriToPath returns the path component of the URI (the empty
\* string when there is none) when the scheme is 'file:' or absent; for every
\* other scheme it fails with the unexpected-protocol error that carries the
\* scheme, and returns no path.
C7_PathOrUnexpectedProtocol ==
  (op = "uriToPath" /\ pc = "return") =>
    IF IsHttp(arg.scheme)
    THEN ThrowsUnexpectedProtocol(ret, HttpScheme)
    ELSE ~ret.threw /\ ret.value = <<arg.path>>

HostWithoutPath(u) ==
  u.scheme = FileScheme /\ u.authority = << <<"a">> >> /\ u.path = <<>>
\* C7, amended: as stated, except that for a 'file:' URI that names a host and
\* has no path the result is '/'.
C7_PathOrRootOrUnexpectedProtocol ==
  (op = "uriToPath" /\ pc = "return") =>
    IF IsHttp(arg.scheme)
    THEN ThrowsUnexpectedProtocol(ret, HttpScheme)
    ELSE /\ ~ret.threw
         /\ ret.value = <<IF HostWithoutPath(arg) THEN <<"/">> ELSE arg.path>>
C7_Witness ==
  /\ op = "uriToPath"
  /\ pc = "return"
  /\ arg.scheme = <<"H", "T", "T", "P", ":">>
  /\ arg.authority = << <<"a">> >>
  /\ arg.path = <<"/", "a">>
  /\ ret.threw

\* A path of '/' and unreserved characters: no '#', '?', white space, backslash.
IsPlainPath(p) == \A i \in 1..Len(p) : p[i] \in {"/", "a", "."}
RoundTrips ==
  /\ pc = "uri" => ret = <<"f", "i", "l", "e", ":", "/", "/">> \o arg
  /\ pc = "path" => ~ret.threw /\ ret.value = <<arg>>

\* C8 as stated: for every ASCII path p without URI-reserved characters,
\* uriToPath(pathToUri(p)) = p, where pathToUri(p) is 'file://' followed by p.
C8_RoundTripEveryPath == (op = "roundTrip" /\ IsPlainPath(arg)) => RoundTrips

\* C8, amended: the same for every path of '/' and unreserved characters that
\* is empty or begins with '/'.
C8_RoundTripAbsolutePath ==
  (op = "roundTrip" /\ IsPlainPath(arg) /\ (arg = <<>> \/ arg[1] = "/")) => RoundTrips
C8_Witness ==
  /\ op = "roundTrip"
  /\ pc = "path"
  /\ arg = <<"/", "a", ".">>
  /\ ret.value = <<arg>>

====
